---- MODULE Spec2Model ----
(***************************************************************************)
(* Model of the clinical-notes tools of m4:                                *)
(*   src/src/m4/mcp_server.py       the MCP entry points and their gate    *)
(*   src/src/m4/core/tools/notes.py SearchNotesTool, GetNoteTool,          *)
(*                                  ListPatientNotesTool                   *)
(* Strings are sequences of one-character strings, so that lower(),        *)
(* replace(), POSITION, SUBSTRING and LIKE are computed and not assumed.   *)
(***************************************************************************)
EXTENDS Integers, Sequences, FiniteSets, TLC

VARIABLES active, call, gate, row

vars == <<active, call, gate, row>>

(***************************************************************************)
(* Bounds of the model.                                                    *)
(***************************************************************************)
MaxLimit == 2
MaxMatches == 2
MaxNoteLen == 3
MaxTextLen == 3
MaxQueryLen == 2
MaxSnippetLen == 3

(***************************************************************************)
(* Strings.                                                                *)
(***************************************************************************)
Min(a, b) == IF a < b THEN a ELSE b
Max(a, b) == IF a > b THEN a ELSE b

UpperLetters == <<"A", "B", "C", "D", "E", "F", "G", "H", "I", "J", "K", "L", "M",
                  "N", "O", "P", "Q", "R", "S", "T", "U", "V", "W", "X", "Y", "Z">>
LowerLetters == <<"a", "b", "c", "d", "e", "f", "g", "h", "i", "j", "k", "l", "m",
                  "n", "o", "p", "q", "r", "s", "t", "u", "v", "w", "x", "y", "z">>

\* str.lower() / SQL LOWER() on one character
LowerChar(c) ==
    IF \E i \in 1..26 : UpperLetters[i] = c
    THEN LowerLetters[CHOOSE i \in 1..26 : UpperLetters[i] = c]
    ELSE c

\* str.lower() / SQL LOWER()
Lower(s) == [i \in 1..Len(s) |-> LowerChar(s[i])]

\* s[from..] as a sequence (1-based from)
Drop(s, n) == SubSeq(s, n + 1, Len(s))

\* Strings of length 0..n over alphabet A
StringsUpTo(A, n) == UNION {[1..k -> A] : k \in 0..n}

(***************************************************************************)
(* Datasets and tools (descriptors).                                       *)
(***************************************************************************)
Modalities == {"NOTES", "TABULAR"}

\* The dataset registry: name -> modalities
Registry ==
    [n \in {"mimic-iv-demo", "mimic-iv-note", "mimic-iv-full"} |->
        CASE n = "mimic-iv-demo" -> {"TABULAR"}
          [] n = "mimic-iv-note" -> {"NOTES"}
          [] n = "mimic-iv-full" -> {"TABULAR", "NOTES"}]

DatasetNames == DOMAIN Registry

DatasetDef(n) == [name |-> n, modalities |-> Registry[n]]

\* Names a caller may pass to set_dataset, one of them unknown
RequestedNames == DatasetNames \cup {"unknown"}

\* supported_datasets: frozenset[str] | None
None == [present |-> FALSE, names |-> {}]
AllowList(names) == [present |-> TRUE, names |-> names]

\* required_modalities / supported_datasets class attributes of the note tools
NoteTool(n) == [name |-> n, required_modalities |-> {"NOTES"}, supported_datasets |-> None]

NoteToolNames == {"search_notes", "get_note", "list_patient_notes"}

\* Python truthiness of `frozenset | None`
Truthy(s) == s.present /\ s.names # {}

\* SearchNotesTool.is_compatible (identical in the three tools)
IsCompatible(tool, dataset) ==
    IF Truthy(tool.supported_datasets) /\ dataset.name \notin tool.supported_datasets.names
    THEN FALSE
    ELSE IF ~(tool.required_modalities \subseteq dataset.modalities)
    THEN FALSE
    ELSE TRUE

\* ToolSelector.check_compatibility(tool_name, dataset).compatible
CheckCompatibility(toolName, dataset) == IsCompatible(NoteTool(toolName), dataset)

(***************************************************************************)
(* Note-type selector.                                                     *)
(***************************************************************************)
Discharge == <<"d", "i", "s", "c", "h", "a", "r", "g", "e">>
Radiology == <<"r", "a", "d", "i", "o", "l", "o", "g", "y">>
All == <<"a", "l", "l">>

\* note_type values a caller may pass
NoteTypeInputs ==
    {Discharge, Radiology, All,
     <<"A", "L", "L">>, <<"D", "i", "s", "c", "h", "a", "r", "g", "e">>,
     <<"n", "o", "t", "e", "s">>, <<"a", "l">>, <<>>}

GetTablesForTypeCaseSensitive(note_type) ==
    IF note_type = Discharge THEN <<"discharge">>
    ELSE IF note_type = Radiology THEN <<"radiology">>
    ELSE IF note_type = All THEN <<"discharge", "radiology">>
    ELSE <<>>

\* SearchNotesTool._get_tables_for_type / ListPatientNotesTool._get_tables_for_type
GetTablesForType(note_type) ==
    LET nt == Lower(note_type) IN
    IF nt = Discharge THEN <<"discharge">>
    ELSE IF nt = Radiology THEN <<"radiology">>
    ELSE IF nt = All THEN <<"discharge", "radiology">>
    ELSE <<>>

Tables == {"discharge", "radiology"}

(***************************************************************************)
(* The query backend, as the note tools see it.  For one table and one     *)
(* call the environment fixes how the backend behaves: it raises, it       *)
(* returns success = false, or it answers with the rows that satisfy the   *)
(* WHERE clause.  A zero-row answer is an empty payload or a message that  *)
(* says "no rows"; an answer with rows is a table whose header names the   *)
(* columns.  noRows says whether the rendered text (or the exception's     *)
(* message) contains the words "no rows".                                  *)
(***************************************************************************)
Envs ==
    [fault : {"raise"}, matches : {0}, zero : {"empty"}, noRows : BOOLEAN]
    \cup [fault : {"fail"}, matches : {0}, zero : {"empty"}, noRows : {FALSE}]
    \cup [fault : {"none"}, matches : {0}, zero : {"empty", "message"}, noRows : {FALSE}]
    \cup [fault : {"none"}, matches : 1..MaxMatches, zero : {"empty"}, noRows : BOOLEAN]

\* LIMIT {params.limit}
SqlLimit(matches, limit) == Min(matches, limit)

\* backend.execute_query(sql, dataset) for the search and list statements
ExecuteQuery(e, limit) ==
    IF e.fault = "raise"
    THEN [kind |-> "raise", success |-> FALSE, rows |-> 0, data |-> "empty", noRows |-> e.noRows]
    ELSE IF e.fault = "fail"
    THEN [kind |-> "fail", success |-> FALSE, rows |-> 0, data |-> "empty", noRows |-> FALSE]
    ELSE LET n == SqlLimit(e.matches, limit) IN
         IF n = 0
         THEN [kind |-> "ok", success |-> TRUE, rows |-> 0, data |-> e.zero,
               noRows |-> (e.zero = "message")]
         ELSE [kind |-> "ok", success |-> TRUE, rows |-> n, data |-> "table",
               noRows |-> e.noRows]

\* Python truthiness of result.data
DataTruthy(r) == r.data # "empty"

(***************************************************************************)
(* Tool outputs.  The formatted text is kept as its parts: which message   *)
(* it is, the per-table sections joined into it, and for get_note the      *)
(* number of characters of payload it carries.                             *)
(***************************************************************************)
Output(kind, sections) ==
    [kind |-> kind, sections |-> sections, contentLen |-> 0, from |-> "none"]

Ran(queries, out) == [queries |-> queries, out |-> out]

\* the element appended to `results` for one table (try / except of the loop)
Section(table, r) ==
    IF r.kind = "raise"
    THEN <<[table |-> table, kind |-> "error", rows |-> 0, noRows |-> r.noRows]>>
    ELSE IF r.success /\ DataTruthy(r)
    THEN <<[table |-> table, kind |-> "rows", rows |-> r.rows, noRows |-> r.noRows]>>
    ELSE <<>>

\* for table in tables: ... results.append(...)
RECURSIVE Results(_, _, _)
Results(tables, envs, limit) ==
    IF tables = <<>> THEN <<>>
    ELSE Section(Head(tables), ExecuteQuery(envs[Head(tables)], limit))
         \o Results(Tail(tables), envs, limit)

\* SearchNotesTool.invoke
SearchNotesInvoke(note_type, limit, envs) ==
    LET tables_to_search == GetTablesForType(note_type) IN
    IF tables_to_search = <<>>
    THEN Ran(<<>>, Output("invalid_note_type", <<>>))
    ELSE LET results == Results(tables_to_search, envs, limit) IN
         IF results = <<>>
         THEN Ran(tables_to_search, Output("no_matches", <<>>))
         ELSE Ran(tables_to_search, Output("search", results))

\* all("no rows" in r.lower() for r in results)
AllSayNoRows(results) == \A i \in 1..Len(results) : results[i].noRows

\* ListPatientNotesTool.invoke
ListPatientNotesInvoke(note_type, limit, envs) ==
    LET tables_to_query == GetTablesForType(note_type) IN
    IF tables_to_query = <<>>
    THEN Ran(<<>>, Output("invalid_note_type", <<>>))
    ELSE LET results == Results(tables_to_query, envs, limit) IN
         IF results = <<>> \/ AllSayNoRows(results)
         THEN Ran(tables_to_query, Output("no_notes_found", <<>>))
         ELSE Ran(tables_to_query, Output("notes_listing", results))

(***************************************************************************)
(* get_note.  The payload of a found row is the rendered row: FrameLen     *)
(* characters of header and id columns around textLen characters of text.  *)
(***************************************************************************)
\* len("note_id"), the least a payload that names its columns can add to the text
FrameLen == 7

NoteEnvs ==
    [fault : {"raise", "fail"}, found : {FALSE}, zero : {"empty"}, textLen : {0}]
    \cup [fault : {"none"}, found : {FALSE}, zero : {"empty", "message"}, textLen : {0}]
    \cup [fault : {"none"}, found : {TRUE}, zero : {"empty"}, textLen : 0..MaxNoteLen]

\* backend.execute_query(sql, dataset) for WHERE note_id = '...' LIMIT 1;
\* len is len(result.data) of a table payload, from the table the row is of
ExecuteNoteQuery(table, e) ==
    IF e.fault # "none"
    THEN [kind |-> e.fault, success |-> FALSE, rows |-> 0, data |-> "empty", len |-> 0,
          from |-> table]
    ELSE IF e.found
    THEN [kind |-> "ok", success |-> TRUE, rows |-> 1, data |-> "table",
          len |-> FrameLen + e.textLen, from |-> table]
    ELSE [kind |-> "ok", success |-> TRUE, rows |-> 0, data |-> e.zero, len |-> 0,
          from |-> table]

\* "note_id" in result.data.lower(): the header of a rendered table
ContainsNoteId(r) == r.data = "table"

\* result.success and result.data and "note_id" in result.data.lower()
NoteFound(r) == r.success /\ DataTruthy(r) /\ ContainsNoteId(r)

\* max_length: int | None = None
NoMaxLength == -1

\* Python truthiness of `int | None`
MaxLengthTruthy(max_length) == max_length # NoMaxLength /\ max_length # 0

\* the two returns inside the loop of GetNoteTool.invoke
RenderNote(r, max_length) ==
    IF MaxLengthTruthy(max_length) /\ r.len > max_length
    THEN [kind |-> "note_truncated", sections |-> <<>>, contentLen |-> max_length,
          from |-> r.from]
    ELSE [kind |-> "note", sections |-> <<>>, contentLen |-> r.len, from |-> r.from]

\* the loop of GetNoteTool.invoke over <<discharge, radiology>>
RECURSIVE TryTables(_, _, _, _)
TryTables(tables, done, envs, max_length) ==
    IF tables = <<>>
    THEN Ran(done, Output("not_found", <<>>))
    ELSE LET r == ExecuteNoteQuery(Head(tables), envs[Head(tables)]) IN
         IF NoteFound(r)
         THEN Ran(Append(done, Head(tables)), RenderNote(r, max_length))
         ELSE TryTables(Tail(tables), Append(done, Head(tables)), envs, max_length)

GetNoteInvokeDischargeOnly(max_length, envs) ==
    TryTables(<<"discharge">>, <<>>, envs, max_length)

\* GetNoteTool.invoke
GetNoteInvoke(max_length, envs) ==
    TryTables(<<"discharge", "radiology">>, <<>>, envs, max_length)

(***************************************************************************)
(* The MCP entry points.                                                   *)
(***************************************************************************)
\* the body of an entry point without its capability check
EntryPointUngated(toolName, dataset, ran) == ran

\* result = _tool_selector.check_compatibility(name, dataset);
\* if not result.compatible: return result.error_message; return tool.invoke(...)
EntryPoint(toolName, dataset, ran) ==
    IF ~CheckCompatibility(toolName, dataset)
    THEN Ran(<<>>, Output("incompatible", <<>>))
    ELSE ran

MaxLengths == {NoMaxLength} \cup (0..(FrameLen + MaxNoteLen + 1))

NoCall == [op |-> "none"]

\* set_dataset(dataset_name): the registry's active dataset becomes the named one
SetDataset ==
    \E name \in RequestedNames :
        /\ call = NoCall
        /\ active' = IF name \in DatasetNames THEN name ELSE active
        /\ call' = [op |-> "set_dataset", name |-> name]
        /\ UNCHANGED <<gate, row>>

\* search_notes(query, note_type, limit, snippet_length)
SearchNotes ==
    \E note_type \in NoteTypeInputs, limit \in 1..MaxLimit, envs \in [Tables -> Envs] :
        /\ call = NoCall
        /\ LET dataset == DatasetDef(active)
               ran == EntryPoint("search_notes", dataset,
                                 SearchNotesInvoke(note_type, limit, envs)) IN
           /\ call' = [op |-> "search_notes", dataset |-> dataset,
                       note_type |-> note_type, limit |-> limit, envs |-> envs,
                       queries |-> ran.queries, out |-> ran.out]
           /\ UNCHANGED <<active, gate, row>>

\* get_note(note_id, max_length)
GetNote ==
    \E max_length \in MaxLengths, envs \in [Tables -> NoteEnvs] :
        /\ call = NoCall
        /\ LET dataset == DatasetDef(active)
               ran == EntryPoint("get_note", dataset, GetNoteInvoke(max_length, envs)) IN
           /\ call' = [op |-> "get_note", dataset |-> dataset, max_length |-> max_length,
                       envs |-> envs, queries |-> ran.queries, out |-> ran.out]
           /\ UNCHANGED <<active, gate, row>>

\* list_patient_notes(subject_id, note_type, limit)
ListPatientNotes ==
    \E note_type \in NoteTypeInputs, limit \in 1..MaxLimit, envs \in [Tables -> Envs] :
        /\ call = NoCall
        /\ LET dataset == DatasetDef(active)
               ran == EntryPoint("list_patient_notes", dataset,
                                 ListPatientNotesInvoke(note_type, limit, envs)) IN
           /\ call' = [op |-> "list_patient_notes", dataset |-> dataset,
                       note_type |-> note_type, limit |-> limit, envs |-> envs,
                       queries |-> ran.queries, out |-> ran.out]
           /\ UNCHANGED <<active, gate, row>>

\* the response text is handed to the MCP client; the server is idle again
Return ==
    /\ call # NoCall
    /\ call' = NoCall
    /\ UNCHANGED <<active, gate, row>>

Init ==
    /\ active = "mimic-iv-note"
    /\ call = NoCall
    /\ gate = NoCall
    /\ row = NoCall

Next == SetDataset \/ SearchNotes \/ GetNote \/ ListPatientNotes \/ Return

Spec == Init /\ [][Next]_vars

(***************************************************************************)
(* Properties of the entry points.                                         *)
(***************************************************************************)
NoteCall == call.op \in NoteToolNames
Gated == NoteCall /\ call.out.kind # "incompatible"
SearchOrList == call.op \in {"search_notes", "list_patient_notes"}

\* the table's query yielded rows / failed / yielded nothing, for search and list
YieldsRows(t) == call.envs[t].fault = "none" /\ call.envs[t].matches >= 1
YieldsZero(t) == call.envs[t].fault = "none" /\ call.envs[t].matches = 0
Fails(t) == call.envs[t].fault \in {"raise", "fail"}

Other(t) == IF t = "discharge" THEN "radiology" ELSE "discharge"

HasSection(kind, t) ==
    \E i \in 1..Len(call.out.sections) :
        call.out.sections[i].kind = kind /\ call.out.sections[i].table = t

RECURSIVE TotalRows(_)
TotalRows(sections) ==
    IF sections = <<>> THEN 0 ELSE Head(sections).rows + TotalRows(Tail(sections))

\* C1: a note entry point evaluates the gate against the dataset that is
\* active when it is called, and on a dataset without the notes modality it
\* returns the incompatibility message and issues no backend query, whatever
\* its parameters; on a dataset with the modality it is not refused.
C1_GateBeforeQueries ==
    NoteCall =>
        /\ call.dataset = DatasetDef(active)
        /\ (call.out.kind = "incompatible") <=> ("NOTES" \notin Registry[active])
        /\ ("NOTES" \notin Registry[active]) => call.queries = <<>>

\* C1 witness: after a switch to a tabular-only dataset, list_patient_notes
\* with note_type all and rows in both tables is refused without a query.
C1_Witness ==
    /\ call.op = "list_patient_notes"
    /\ active = "mimic-iv-demo"
    /\ call.note_type = All
    /\ YieldsRows("discharge") /\ YieldsRows("radiology")
    /\ call.out.kind = "incompatible"
    /\ call.queries = <<>>

\* C3: with note_type all, when one table's query fails (raises or returns
\* success = false) and the other succeeds with rows, the response carries
\* the other table's rows and an error annotation for the failed table.
C3_PartialFailure ==
    (SearchOrList /\ Gated /\ call.note_type = All) =>
        \A t \in Tables :
            (Fails(t) /\ YieldsRows(Other(t))) =>
                /\ HasSection("rows", Other(t))
                /\ HasSection("error", t)

\* C4: search_notes and list_patient_notes never return more than limit
\* rows in total over the tables of the response.
C4_LimitTotal ==
    (SearchOrList /\ Gated) => TotalRows(call.out.sections) <= call.limit

\* the table whose row get_note returned, and the length of that note's text
ReturnedTextLen == call.envs[call.out.from].textLen

\* C5: get_note on an existing note truncates exactly when the note's text
\* is longer than a supplied max_length, then returning max_length
\* characters marked truncated; otherwise the full payload, unmarked.
C5_TruncationByTextLength ==
    (call.op = "get_note" /\ call.out.kind \in {"note", "note_truncated"}) =>
        IF call.max_length > 0 /\ ReturnedTextLen > call.max_length
        THEN call.out.kind = "note_truncated" /\ call.out.contentLen = call.max_length
        ELSE call.out.kind = "note"
             /\ call.out.contentLen = FrameLen + ReturnedTextLen

\* C6 (as stated): discharge, radiology and all resolve to their table
\* sets; every other note_type value gives the invalid-note_type message
\* and no query.
C6_ExactSelectors ==
    (SearchOrList /\ Gated) =>
        IF call.note_type = Discharge THEN call.queries = <<"discharge">>
        ELSE IF call.note_type = Radiology THEN call.queries = <<"radiology">>
        ELSE IF call.note_type = All THEN call.queries = <<"discharge", "radiology">>
        ELSE call.out.kind = "invalid_note_type" /\ call.queries = <<>>

\* C6 (amended): note_type is compared ignoring letter case: a value that
\* lowercases to discharge, radiology or all resolves to that table set and
\* is not rejected; every other value gives the invalid-note_type message
\* and no query.
C6_SelectorsIgnoringCase ==
    (SearchOrList /\ Gated) =>
        LET nt == Lower(call.note_type) IN
        IF nt \in {Discharge, Radiology, All}
        THEN /\ call.out.kind # "invalid_note_type"
             /\ call.queries = (IF nt = Discharge THEN <<"discharge">>
                                ELSE IF nt = Radiology THEN <<"radiology">>
                                ELSE <<"discharge", "radiology">>)
        ELSE call.out.kind = "invalid_note_type" /\ call.queries = <<>>

\* C6 witness: search_notes with the selector ALL in upper case queried both
\* tables.
C6_Witness ==
    /\ call.op = "search_notes"
    /\ call.note_type = <<"A", "L", "L">>
    /\ call.queries = <<"discharge", "radiology">>

\* the table's query yields a matching row, for get_note
NoteYields(t) == call.envs[t].fault = "none" /\ call.envs[t].found

\* C7: get_note queries discharge first, queries radiology exactly when
\* discharge failed or yielded no row, returns the note of the first table
\* that yields one, and answers not-found exactly when neither yields one.
C7_FirstMatchWins ==
    (call.op = "get_note" /\ Gated) =>
        /\ call.queries \in {<<"discharge">>, <<"discharge", "radiology">>}
        /\ (Len(call.queries) = 2) <=> ~NoteYields("discharge")
        /\ (call.out.kind = "not_found")
               <=> (~NoteYields("discharge") /\ ~NoteYields("radiology"))
        /\ NoteYields("discharge") =>
               call.out.kind \in {"note", "note_truncated"} /\ call.out.from = "discharge"
        /\ (~NoteYields("discharge") /\ NoteYields("radiology")) =>
               call.out.kind \in {"note", "note_truncated"} /\ call.out.from = "radiology"

\* C7 witness: the discharge query raised and the note came from radiology.
C7_Witness ==
    /\ call.op = "get_note"
    /\ call.envs["discharge"].fault = "raise"
    /\ NoteYields("radiology")
    /\ call.queries = <<"discharge", "radiology">>
    /\ call.out.kind = "note"
    /\ call.out.from = "radiology"

Selected(t) == \E i \in 1..Len(call.queries) : call.queries[i] = t

\* C8: list_patient_notes answers 'No notes found' when no selected table
\* has a row for the subject: each yields zero rows, or one yields zero
\* rows and the other's query fails.
C8_NoNotesFound ==
    (call.op = "list_patient_notes" /\ Gated /\ call.queries # <<>>) =>
        ((/\ \A t \in Tables : Selected(t) => (YieldsZero(t) \/ Fails(t))
          /\ \E t \in Tables : Selected(t) /\ YieldsZero(t))
            => call.out.kind = "no_notes_found")

\* the section of the response that carries table t's rows, all of them
ListsRowsOf(t) ==
    \E i \in 1..Len(call.out.sections) :
        /\ call.out.sections[i].kind = "rows"
        /\ call.out.sections[i].table = t
        /\ call.out.sections[i].rows = SqlLimit(call.envs[t].matches, call.limit)

\* C11: when a selected table's query succeeds with one or more rows,
\* list_patient_notes answers with the 'Notes for subject_id' listing that
\* includes those rows and never with 'No notes found', whatever the note
\* ids and previews contain (the words "no rows" included).
C11_RowsAreListed ==
    (call.op = "list_patient_notes" /\ Gated) =>
        \A t \in Tables :
            (Selected(t) /\ YieldsRows(t)) =>
                /\ call.out.kind = "notes_listing"
                /\ ListsRowsOf(t)

(***************************************************************************)
(* The capability check as a function of arbitrary descriptors.            *)
(***************************************************************************)
ToolDescriptors ==
    [name : {"search_notes"},
     required_modalities : SUBSET Modalities,
     supported_datasets : {None} \cup {AllowList(S) : S \in SUBSET DatasetNames}]

DatasetDescriptors == [name : DatasetNames, modalities : SUBSET Modalities]

InitGate ==
    /\ active = "mimic-iv-note"
    /\ call = NoCall
    /\ row = NoCall
    /\ gate \in [op : {"pending"}, tool : ToolDescriptors, dataset : DatasetDescriptors]

\* tool.is_compatible(dataset)
CheckGate ==
    /\ gate.op = "pending"
    /\ gate' = [op |-> "checked", tool |-> gate.tool, dataset |-> gate.dataset,
                compatible |-> IsCompatible(gate.tool, gate.dataset)]
    /\ UNCHANGED <<active, call, row>>

NextGate == CheckGate

SpecGate == InitGate /\ [][NextGate]_vars

\* C2: the check answers compatible exactly when the allow-list is absent or
\* contains the dataset's name, and the required modalities are a subset of
\* the dataset's; for absent, empty and non-empty allow-lists alike.
C2_CompatibleExactly ==
    gate.op = "checked" =>
        (gate.compatible <=>
            /\ (~gate.tool.supported_datasets.present
                \/ gate.dataset.name \in gate.tool.supported_datasets.names)
            /\ gate.tool.required_modalities \subseteq gate.dataset.modalities)

(***************************************************************************)
(* The search statement, evaluated on one row of a note table.             *)
(***************************************************************************)
Alphabet == {"a", "A", "%", "_", "'"}

Texts == StringsUpTo(Alphabet, MaxTextLen)
Queries == StringsUpTo(Alphabet, MaxQueryLen)

\* params.query.replace("'", "''")
RECURSIVE EscapeQuotes(_)
EscapeQuotes(q) ==
    IF q = <<>> THEN <<>>
    ELSE IF Head(q) = "'" THEN <<"'", "'">> \o EscapeQuotes(Tail(q))
    ELSE <<Head(q)>> \o EscapeQuotes(Tail(q))

\* the value of the SQL string literal '<body>': a doubled quote is one
\* quote, a single one ends the literal
RECURSIVE SqlLiteralValue(_)
SqlLiteralValue(body) ==
    IF body = <<>> THEN <<>>
    ELSE IF Head(body) = "'"
    THEN IF Len(body) >= 2 /\ body[2] = "'"
         THEN <<"'">> \o SqlLiteralValue(Drop(body, 2))
         ELSE <<>>
    ELSE <<Head(body)>> \o SqlLiteralValue(Tail(body))

\* needle is at 1-based index i of hay
MatchesAt(needle, hay, i) ==
    /\ i + Len(needle) - 1 <= Len(hay)
    /\ \A k \in 1..Len(needle) : hay[i + k - 1] = needle[k]

\* SQL POSITION(needle IN hay): 1-based index of the first occurrence, 0 if none
RECURSIVE PositionFrom(_, _, _)
PositionFrom(needle, hay, i) ==
    IF i + Len(needle) - 1 > Len(hay) THEN 0
    ELSE IF MatchesAt(needle, hay, i) THEN i
    ELSE PositionFrom(needle, hay, i + 1)

Position(needle, hay) == PositionFrom(needle, hay, 1)

\* SQL SUBSTRING(s, start, length) for start >= 1
Substring(s, start, length) == SubSeq(s, start, Min(start + length - 1, Len(s)))

\* SQL LEFT(s, n)
Left(s, n) == SubSeq(s, 1, Min(n, Len(s)))

\* SQL GREATEST(a, b)
Greatest(a, b) == Max(a, b)

SnippetWholeWindowBefore(text, query, snippet_length) ==
    LET term == Lower(SqlLiteralValue(EscapeQuotes(query)))
        pos == Position(term, Lower(text)) IN
    IF pos > 0
    THEN Substring(text, Greatest(1, pos - snippet_length), snippet_length)
    ELSE Left(text, snippet_length)

\* the CASE ... END AS snippet column of SearchNotesTool.invoke
Snippet(text, query, snippet_length) ==
    LET term == Lower(SqlLiteralValue(EscapeQuotes(query)))
        pos == Position(term, Lower(text)) IN
    IF pos > 0
    THEN Substring(text, Greatest(1, pos - (snippet_length \div 2)), snippet_length)
    ELSE Left(text, snippet_length)

\* SQL s LIKE pattern: % is any run of characters, _ is any one character
RECURSIVE Like(_, _)
Like(s, pattern) ==
    IF pattern = <<>> THEN s = <<>>
    ELSE IF Head(pattern) = "%"
    THEN Like(s, Tail(pattern)) \/ (s # <<>> /\ Like(Tail(s), pattern))
    ELSE IF s = <<>> THEN FALSE
    ELSE (Head(pattern) = "_" \/ Head(pattern) = Head(s)) /\ Like(Tail(s), Tail(pattern))

\* WHERE LOWER(text) LIKE '%{search_term.lower()}%'
WhereClause(text, query) ==
    Like(Lower(text),
         SqlLiteralValue(<<"%">> \o Lower(EscapeQuotes(query)) \o <<"%">>))

InitRow ==
    /\ active = "mimic-iv-note"
    /\ call = NoCall
    /\ gate = NoCall
    /\ row \in [op : {"stored"}, text : Texts, query : Queries,
                snippet_length : 1..MaxSnippetLen]

\* the backend evaluates the statement of search_notes on the row
EvalRow ==
    /\ row.op = "stored"
    /\ row' = [op |-> "evaluated", text |-> row.text, query |-> row.query,
               snippet_length |-> row.snippet_length,
               selected |-> WhereClause(row.text, row.query),
               snippet |-> Snippet(row.text, row.query, row.snippet_length)]
    /\ UNCHANGED <<active, call, gate>>

NextRow == EvalRow

SpecRow == InitRow /\ [][NextRow]_vars

\* 0-based offsets at which query occurs in text, ignoring letter case
Occurrences(text, query) ==
    {p \in 0..(Len(text) - Len(query)) :
        \A k \in 1..Len(query) : LowerChar(text[p + k]) = LowerChar(query[k])}

FirstOccurrence(text, query) ==
    CHOOSE p \in Occurrences(text, query) : \A o \in Occurrences(text, query) : p <= o

\* the window the claim gives the snippet: start offset and length
WindowStart(text, query, n) == Max(0, FirstOccurrence(text, query) - (n \div 2))
WindowLen(text, query, n) == Min(n, Len(text) - WindowStart(text, query, n))

SnippetAsSpecified ==
    LET t == row.text
        q == row.query
        n == row.snippet_length IN
    IF Occurrences(t, q) # {}
    THEN /\ row.snippet = [i \in 1..WindowLen(t, q, n) |-> t[WindowStart(t, q, n) + i]]
         /\ Len(row.snippet) <= n
         /\ WindowStart(t, q, n) >= 0
         /\ WindowStart(t, q, n) + Len(row.snippet) <= Len(t)
    ELSE row.snippet = [i \in 1..Min(n, Len(t)) |-> t[i]]

ContainsMatchOffset ==
    LET t == row.text
        q == row.query
        n == row.snippet_length IN
    Occurrences(t, q) # {} =>
        /\ WindowStart(t, q, n) <= FirstOccurrence(t, q)
        /\ FirstOccurrence(t, q) < WindowStart(t, q, n) + Len(row.snippet)

\* C9 (as stated): the snippet is the window of snippet_length characters
\* that starts snippet_length div 2 before the first case-insensitive
\* occurrence, clamped to the text, and contains the offset of the
\* occurrence; without an occurrence it is the first snippet_length
\* characters.
C9_SnippetWindow ==
    row.op = "evaluated" => (SnippetAsSpecified /\ ContainsMatchOffset)

\* C9 (amended): as stated, except that the snippet contains the offset of
\* the occurrence only when the text is not empty (an empty query occurs at
\* offset 0 of an empty text, whose snippet is empty).
C9_SnippetWindowOfNonEmptyText ==
    row.op = "evaluated" =>
        (SnippetAsSpecified /\ (row.text # <<>> => ContainsMatchOffset))

\* C9 witness: a match far enough into the text that the window starts
\* after offset 0 and is cut short by the end of the text.
C9_Witness ==
    /\ row.op = "evaluated"
    /\ row.text = <<"'", "'", "a">>
    /\ row.query = <<"A">>
    /\ row.snippet_length = 3
    /\ row.snippet = <<"'", "a">>

\* C10: a row passes the filter of search_notes exactly when its text
\* contains the query as a literal substring, ignoring letter case.
C10_LiteralSubstringFilter ==
    row.op = "evaluated" => (row.selected <=> (Occurrences(row.text, row.query) # {}))

====
